---------------------------- MODULE Spec2Model ----------------------------
(***************************************************************************)
(* Model of swarmbit/spacemesh-db-connector:                               *)
(*   - network/state.go : NetworkState, the derived-state cache (the       *)
(*     published NetworkInfo snapshot and the per-epoch subsidy table);    *)
(*   - sink             : the five NATS consumption loops of Sink.         *)
(* Three projections of the program are specified:                         *)
(*   Spec         the snapshot cache (NewNetworkState lines 33-34, the     *)
(*                60s ticker goroutine, concurrent GetInfo readers);       *)
(*   SubsidySpec  the subsidy table (NewNetworkState lines 35-37, its      *)
(*                ticker goroutine, concurrent GetEpochSubsidy readers);   *)
(*   AtxSpec      getHigestAtx as a pure function of its two query results;*)
(*   SinkSpec / SinkFairSpec  the consumption loops against a broker.      *)
(***************************************************************************)
EXTENDS Integers, Sequences, FiniteSets, TLC

VARIABLES
    \* ---- collaborators read by NetworkState ----
    dbLayer,          \* ReadDB: the last processed layer
    \* ---- NetworkState ----
    pc,               \* position of each thread of NetworkState
    loc,              \* locals of the fetchNetworkInfo cycle each thread runs
    networkInfo,      \* n.networkInfo  (sync.Map: key -> *types.NetworkInfo)
    epochSubsidies,   \* n.epochSubsidies (sync.Map: uint32 -> uint64)
    subLoc,           \* locals of the calculateEpochSubsidies cycle each thread runs
    readInfo,         \* what the last GetInfo call of the reader returned
    readSubsidy,      \* what the last GetEpochSubsidy call of the reader returned
    \* ---- history of NetworkState (not program state) ----
    lastAssembled,    \* the NetworkInfo the last Store was given, built from the locals
    cycleStart,       \* n.networkInfo as it was when the latest cycle began
    cycleErr,         \* a collaborator call of the latest cycle returned an error
    lastOutcome,      \* the latest fetchNetworkInfo cycle: none, running, aborted, published
    subsObserved,     \* the highest epoch a completed calculateEpochSubsidies cycle observed
    startup           \* how the two cycles NewNetworkState runs itself ended

VARIABLES
    \* ---- getHigestAtx as a function of its two query results ----
    qAtxs,            \* the result of GetAtxForEpoch
    qMalfeasance,     \* the identifiers GetMalfeasanceNodes returned
    gotAtxID          \* what getHigestAtx returned for them, once called

VARIABLES
    \* ---- NewSink ----
    bpc,              \* position of NewSink: Connect, AddConsumer, PullSubscribe, returned
    created,          \* the durable names AddConsumer created a consumer for
    subs,             \* per loop: its *nats.Subscription field: unset, nil or bound
    \* ---- the process, the broker and the write database ----
    proc,             \* the process: running, panicked (nil dereference), exited (log.Fatal)
    msgs,             \* every message published so far; a message is known by its index
    pending,          \* per pull consumer: the messages the broker has to deliver, in order
    acked,            \* the messages the broker got an Ack for
    naked,            \* the messages the broker got a Nak for
    store,            \* per subject: the facts WriteDB holds
    saveFailures,     \* the number of Save* calls that returned an error so far
    \* ---- Sink: one consumption loop per subject ----
    wpc,              \* position of each loop
    batch,            \* per loop: the messages of the fetched batch not yet handled
    saveErr,          \* per loop: the local saveErr != nil
    \* ---- history of the loops (not program state) ----
    unmarshalled,     \* the messages json.Unmarshal was called on
    delivery,         \* per loop: the delivery of a fact it handled last, with its responses
    polls             \* the number of Fetch calls that returned no message (capped)

cacheVars == <<dbLayer, pc, loc, networkInfo, epochSubsidies, subLoc, readInfo,
               readSubsidy, lastAssembled, cycleStart, cycleErr, lastOutcome,
               subsObserved, startup>>

atxVars == <<qAtxs, qMalfeasance, gotAtxID>>

bootVars == <<bpc, created, subs>>

sinkVars == <<bootVars, proc, msgs, pending, acked, naked, store, saveFailures, wpc,
              batch, saveErr, unmarshalled, delivery, polls>>

vars == <<cacheVars, atxVars, sinkVars>>

-----------------------------------------------------------------------------
(* Bounds of the model *)

MaxLayer == 7
EpochBits == 4
WordBits == 3
MaxAtxs == 3
MaxMsgs == 2
MaxSaveFailures == 1
MaxPolls == 1
MaxBacklog == 11

-----------------------------------------------------------------------------
(* Fixed-width arithmetic *)

RECURSIVE Pow2(_)
Pow2(n) == IF n = 0 THEN 1 ELSE 2 * Pow2(n - 1)

\* types.EpochID is an unsigned 32-bit integer; the model keeps EpochBits of them.
EpochMod == Pow2(EpochBits)


\* uint64 is kept to WordBits bits.
WordMod == Pow2(WordBits)

-----------------------------------------------------------------------------
(* sync.Map, as far as NetworkState uses it: Store and Load of one key. *)

SyncMapEmpty == [k \in {} |-> 0]

\* A store that keeps only part of the new value (what a field-by-field update
\* of the published struct would leave visible).
SyncMapStoreTorn(m, k, v) ==
    [x \in DOMAIN m \cup {k} |->
        IF x = k
        THEN (IF k \in DOMAIN m /\ DOMAIN m[k] = DOMAIN v /\ "Layer" \in DOMAIN v
              THEN [v EXCEPT !.Layer = m[k].Layer]
              ELSE v)
        ELSE m[x]]

\* A store that rebuilds the map around the new entry.
SyncMapStoreDropOthers(m, k, v) == [x \in {k} |-> v]

SyncMapStore(m, k, v) ==
    [x \in DOMAIN m \cup {k} |-> IF x = k THEN v ELSE m[x]]

SyncMapHas(m, k) == k \in DOMAIN m

SyncMapLoad(m, k) == m[k]

INFO_KEY == "info"

-----------------------------------------------------------------------------
(* hexToBase64: encoding/hex DecodeString followed by base64.StdEncoding.  *)
(* A string is a sequence of one-character strings.                        *)

HexDigits == <<"0","1","2","3","4","5","6","7","8","9","a","b","c","d","e","f">>

HexUpper == <<"0","1","2","3","4","5","6","7","8","9","A","B","C","D","E","F">>

B64Alphabet ==
    <<"A","B","C","D","E","F","G","H","I","J","K","L","M","N","O","P",
      "Q","R","S","T","U","V","W","X","Y","Z","a","b","c","d","e","f",
      "g","h","i","j","k","l","m","n","o","p","q","r","s","t","u","v",
      "w","x","y","z","0","1","2","3","4","5","6","7","8","9","+","/">>

IsHexDigit(c) == \E i \in 1..Len(HexDigits) : HexDigits[i] = c \/ HexUpper[i] = c

HexVal(c) == (CHOOSE i \in 1..Len(HexDigits) : HexDigits[i] = c \/ HexUpper[i] = c) - 1

\* hex.DecodeString fails on an odd length and on a character that is no hex digit.
HexDecodeOk(s) ==
    /\ Len(s) % 2 = 0
    /\ \A i \in 1..Len(s) : IsHexDigit(s[i])

HexDecode(s) ==
    [i \in 1..(Len(s) \div 2) |-> 16 * HexVal(s[2 * i - 1]) + HexVal(s[2 * i])]

B64Char(n) == B64Alphabet[n + 1]

RECURSIVE Base64Encode(_)
Base64Encode(b) ==
    IF Len(b) = 0 THEN <<>>
    ELSE IF Len(b) = 1 THEN
        <<B64Char(b[1] \div 4), B64Char((b[1] % 4) * 16), "=", "=">>
    ELSE IF Len(b) = 2 THEN
        <<B64Char(b[1] \div 4),
          B64Char((b[1] % 4) * 16 + b[2] \div 16),
          B64Char((b[2] % 16) * 4), "=">>
    ELSE
        <<B64Char(b[1] \div 4),
          B64Char((b[1] % 4) * 16 + b[2] \div 16),
          B64Char((b[2] % 16) * 4 + b[3] \div 64),
          B64Char(b[3] % 64)>> \o Base64Encode(SubSeq(b, 4, Len(b)))

\* (string, error): err is TRUE when hex.DecodeString failed.
hexToBase64(hexString) ==
    IF HexDecodeOk(hexString)
    THEN [val |-> Base64Encode(HexDecode(hexString)), err |-> FALSE]
    ELSE [val |-> <<>>, err |-> TRUE]

-----------------------------------------------------------------------------
(* getHigestAtx, after its two queries: the loop of lines 194-207.         *)

AtxHeight(atx) == (atx.BaseTick + atx.TickCount) % WordMod

RECURSIVE HighestLoop(_, _, _, _, _)
HighestLoop(atxs, malfeasanceNodesMap, i, maxHeight, atxID) ==
    IF i > Len(atxs) THEN atxID
    ELSE IF AtxHeight(atxs[i]) > maxHeight /\ atxs[i].NodeID \notin malfeasanceNodesMap
         THEN HighestLoop(atxs, malfeasanceNodesMap, i + 1, AtxHeight(atxs[i]), atxs[i].AtxID)
         ELSE HighestLoop(atxs, malfeasanceNodesMap, i + 1, maxHeight, atxID)

\* The selection that forgets the malfeasance map.
getHigestAtxNoFilter(atxs, malfeasanceNodes) ==
    HighestLoop(atxs, {}, 1, 0, <<>>)

getHigestAtx(atxs, malfeasanceNodes) ==
    HighestLoop(atxs, malfeasanceNodes, 1, 0, <<>>)


-----------------------------------------------------------------------------
(* Collaborators of NetworkState.  Their code is not part of the sources;  *)
(* they are modelled from their interface (spec section 6).                *)

\* NetworkUtils.GetEpoch: a fixed number of layers per epoch, result an EpochID.
LayersPerEpoch == 2

GetEpoch(layer) == (layer \div LayersPerEpoch) % EpochMod

\* NetworkUtils.GetEpochSubsidy: a pure function of the epoch, never 0.
EpochMathSubsidy(epoch) == 1000 - 10 * epoch

\* NetworkUtils.GetNumberOfSlots: its formula is not part of the sources; any
\* function of the three arguments serves.
GetNumberOfSlots(weightA, weightB, epoch) == (weightA + weightB) \div 2 + epoch

\* PriceResolver.GetPrice: the price 0.05 as a fraction.
GetPrice == [num |-> 5, den |-> 100]

\* The contents of the read database: ATXs in query order, the malfeasant
\* nodes, the number of accounts and the circulating supply.  The epoch
\* before epoch 0 (EpochMod - 1) and epoch 3 hold no ATX; epoch 0 holds a
\* clean ATX below a malfeasant one; every ATX of epoch 1 is malfeasant;
\* the identifier of the ATX of epoch 2 is not hexadecimal.
DbAtxs ==
    << [AtxID |-> <<"0","a">>, NodeID |-> "n1", BaseTick |-> 1, TickCount |-> 2,
        Epoch |-> 0, Weight |-> 40, NumUnits |-> 4],
       [AtxID |-> <<"f","f","1","0">>, NodeID |-> "n2", BaseTick |-> 2, TickCount |-> 3,
        Epoch |-> 0, Weight |-> 60, NumUnits |-> 6],
       [AtxID |-> <<"b","e","e","f">>, NodeID |-> "n2", BaseTick |-> 1, TickCount |-> 3,
        Epoch |-> 1, Weight |-> 70, NumUnits |-> 7],
       [AtxID |-> <<"a","b","c">>, NodeID |-> "n1", BaseTick |-> 1, TickCount |-> 1,
        Epoch |-> 2, Weight |-> 30, NumUnits |-> 3] >>

DbMalfeasanceNodes == {"n2"}

DbAccounts == 100

DbCirculatingSupply == 2000000

RECURSIVE SelectSeq2(_, _, _)
SelectSeq2(s, epoch, i) ==
    IF i > Len(s) THEN <<>>
    ELSE (IF s[i].Epoch = epoch THEN <<s[i]>> ELSE <<>>) \o SelectSeq2(s, epoch, i + 1)

\* ReadDB.GetAtxForEpoch
GetAtxForEpoch(epoch) == SelectSeq2(DbAtxs, epoch, 1)

\* ReadDB.CountAtxEpoch
CountAtxEpoch(epoch) == Len(GetAtxForEpoch(epoch))

RECURSIVE SumField(_, _, _)
SumField(s, f, i) == IF i > Len(s) THEN 0 ELSE s[i][f] + SumField(s, f, i + 1)

\* ReadDB.GetAtxEpoch
GetAtxEpoch(epoch) ==
    [TotalWeight |-> SumField(GetAtxForEpoch(epoch), "Weight", 1),
     TotalEffectiveNumUnits |-> SumField(GetAtxForEpoch(epoch), "NumUnits", 1)]

-----------------------------------------------------------------------------
(* NetworkState *)

Threads == {"main", "infoTicker", "subsTicker"}

\* The positions of a fetchNetworkInfo cycle: the collaborator call about to be made.
InfoSteps ==
    <<"GetLastProcessedLayer", "CountAtxEpoch", "CountAtxNextEpoch", "CountAccounts",
      "GetNetworkInfo", "GetAtxEpoch", "GetAtxNextEpoch", "GetAtxForEpoch",
      "GetMalfeasanceNodes", "hexToBase64", "GetNumberOfSlots", "Store">>

InCycle(t) == \E i \in 1..Len(InfoSteps) : pc[t] = InfoSteps[i]

\* A value that may be absent is a sequence of length 0 or 1.
NoValue == <<>>

ZeroTotals == [TotalWeight |-> 0, TotalEffectiveNumUnits |-> 0]

\* The locals before their assignment.
LocInit ==
    [layer |-> 0, epoch |-> 0, atxEpoch |-> 0, atxNextEpoch |-> 0,
     totalAccounts |-> 0, networkInfo |-> 0, atxEpochTotals |-> ZeroTotals,
     atxNextEpochTotals |-> ZeroTotals, atxs |-> <<>>, hexAtx |-> <<>>,
     base64Atx |-> <<>>, totalSlots |-> 0]

SubLocInit == [epoch |-> 0, i |-> 0]

\* &types.NetworkInfo{}
ZeroInfo ==
    [Epoch |-> 0, EpochSubsidy |-> 0, Layer |-> 0, TotalSlots |-> 0, TotalWeight |-> 0,
     EffectiveUnitsCommited |-> 0, CirculatingSupply |-> 0, Price |-> [num |-> 0, den |-> 1],
     MarketCap |-> 0, TotalAccounts |-> 0, AtxHex |-> <<>>, AtxBase64 |-> <<>>,
     TotalActiveSmeshers |-> 0, NextEpoch |-> <<>>]

genisesAccounts == 28

\* uint64(float64(supply) * price)
MarketCap(supply, price) == (supply * price.num) \div price.den

\* The struct literal of lines 140-159, from the locals of the cycle.
Assemble(l, price) ==
    [Epoch |-> l.epoch,
     EpochSubsidy |-> EpochMathSubsidy(l.epoch),
     Layer |-> l.layer,
     TotalSlots |-> l.totalSlots,
     TotalWeight |-> l.atxEpochTotals.TotalWeight,
     EffectiveUnitsCommited |-> l.atxEpochTotals.TotalEffectiveNumUnits,
     CirculatingSupply |-> l.networkInfo,
     Price |-> price,
     MarketCap |-> MarketCap(l.networkInfo, price),
     TotalAccounts |-> l.totalAccounts + genisesAccounts,
     AtxHex |-> l.hexAtx,
     AtxBase64 |-> l.base64Atx,
     TotalActiveSmeshers |-> l.atxEpoch,
     NextEpoch |-> <<[Epoch |-> (l.epoch + 1) % EpochMod,
                      EffectiveUnitsCommited |-> l.atxNextEpochTotals.TotalEffectiveNumUnits,
                      TotalActiveSmeshers |-> l.atxNextEpoch]>>]

\* A GetInfo that ignores the cache.
GetInfoZero(m) == ZeroInfo

GetInfo(m) ==
    IF ~SyncMapHas(m, INFO_KEY) THEN ZeroInfo ELSE SyncMapLoad(m, INFO_KEY)

GetEpochSubsidy(m, epoch) ==
    IF ~SyncMapHas(m, epoch) THEN 0 ELSE SyncMapLoad(m, epoch)

\* epoch - 1 on types.EpochID
PrevEpoch(epoch) == (epoch + EpochMod - 1) % EpochMod


InfoThreads == {"main", "infoTicker"}

SubsThreads == {"main", "subsTicker"}

\* Where a thread goes when fetchNetworkInfo returns: NewNetworkState goes on to
\* line 34, the ticker goroutine waits for the next tick.
AfterFetch(t) == IF t = "main" THEN "periodicNetworkInfoFetch" ELSE "idle"

\* Where a thread goes when calculateEpochSubsidies returns.
AfterSubsidies(t) == IF t = "main" THEN "periodicCalculateSubsidy" ELSE "idle"

subsVars == <<epochSubsidies, subLoc, readSubsidy, subsObserved>>

\* fetchNetworkInfo is entered: by NewNetworkState (line 33) or by a tick (line 60).
BeginFetch(t) ==
    /\ pc' = [pc EXCEPT ![t] = "GetLastProcessedLayer"]
    /\ loc' = [loc EXCEPT ![t] = LocInit]
    /\ cycleStart' = networkInfo
    /\ cycleErr' = FALSE
    /\ lastOutcome' = "running"
    /\ UNCHANGED <<atxVars, sinkVars, startup, dbLayer, networkInfo, readInfo, lastAssembled, subsVars>>

\* A constructor that starts the ticker goroutine before its own first cycle.
MainCallsFetchTickerFirst ==
    /\ pc["main"] = "fetchNetworkInfo"
    /\ pc' = [pc EXCEPT !["main"] = "GetLastProcessedLayer", !["infoTicker"] = "idle"]
    /\ loc' = [loc EXCEPT !["main"] = LocInit]
    /\ cycleStart' = networkInfo
    /\ cycleErr' = FALSE
    /\ lastOutcome' = "running"
    /\ UNCHANGED <<atxVars, sinkVars, startup, dbLayer, networkInfo, readInfo, lastAssembled,
                   subsVars>>

\* A constructor that leaves the first snapshot cycle to the ticker.
MainDefersFetch ==
    /\ pc["main"] = "fetchNetworkInfo"
    /\ pc' = [pc EXCEPT !["main"] = "periodicNetworkInfoFetch"]
    /\ UNCHANGED <<atxVars, sinkVars, startup, dbLayer, loc, networkInfo, readInfo,
                   lastAssembled, cycleStart, cycleErr, lastOutcome, subsVars>>

\* line 33: NewNetworkState calls fetchNetworkInfo itself
MainCallsFetch ==
    /\ pc["main"] = "fetchNetworkInfo"
    /\ BeginFetch("main")

InfoTick ==
    /\ pc["infoTicker"] = "idle"
    /\ BeginFetch("infoTicker")

\* err != nil: the message is printed and fetchNetworkInfo returns.
Return(t) ==
    /\ pc' = [pc EXCEPT ![t] = AfterFetch(t)]
    /\ loc' = [loc EXCEPT ![t] = LocInit]
    /\ cycleErr' = TRUE
    /\ lastOutcome' = "aborted"
    /\ startup' = IF t = "main" THEN [startup EXCEPT !.info = "aborted"] ELSE startup
    /\ UNCHANGED <<atxVars, sinkVars, dbLayer, networkInfo, readInfo, lastAssembled, cycleStart, subsVars>>

\* err == nil: the result is kept in a local and the next call is made.
Proceed(t, next, l) ==
    /\ pc' = [pc EXCEPT ![t] = next]
    /\ loc' = [loc EXCEPT ![t] = l]
    /\ UNCHANGED <<atxVars, sinkVars, startup, dbLayer, networkInfo, readInfo, lastAssembled, cycleStart, cycleErr,
                   lastOutcome, subsVars>>

\* lines 76-82
FetchGetLastProcessedLayer(t) ==
    /\ pc[t] = "GetLastProcessedLayer"
    /\ \/ Return(t)
       \/ Proceed(t, "CountAtxEpoch",
                  [loc[t] EXCEPT !.layer = dbLayer, !.epoch = GetEpoch(dbLayer)])

\* A cycle that counts the ATXs of the current epoch as the active smeshers.
FetchCountAtxEpochCurrent(t) ==
    /\ pc[t] = "CountAtxEpoch"
    /\ \/ Return(t)
       \/ Proceed(t, "CountAtxNextEpoch",
                  [loc[t] EXCEPT !.atxEpoch = CountAtxEpoch(loc[t].epoch)])

\* lines 84-88
FetchCountAtxEpoch(t) ==
    /\ pc[t] = "CountAtxEpoch"
    /\ \/ Return(t)
       \/ Proceed(t, "CountAtxNextEpoch",
                  [loc[t] EXCEPT !.atxEpoch = CountAtxEpoch(PrevEpoch(loc[t].epoch))])

\* lines 90-94
FetchCountAtxNextEpoch(t) ==
    /\ pc[t] = "CountAtxNextEpoch"
    /\ \/ Return(t)
       \/ Proceed(t, "CountAccounts",
                  [loc[t] EXCEPT !.atxNextEpoch = CountAtxEpoch(loc[t].epoch)])

\* lines 96-100
FetchCountAccounts(t) ==
    /\ pc[t] = "CountAccounts"
    /\ \/ Return(t)
       \/ Proceed(t, "GetNetworkInfo", [loc[t] EXCEPT !.totalAccounts = DbAccounts])

\* lines 102-106
FetchGetNetworkInfo(t) ==
    /\ pc[t] = "GetNetworkInfo"
    /\ \/ Return(t)
       \/ Proceed(t, "GetAtxEpoch", [loc[t] EXCEPT !.networkInfo = DbCirculatingSupply])

\* lines 108-112
FetchGetAtxEpoch(t) ==
    /\ pc[t] = "GetAtxEpoch"
    /\ \/ Return(t)
       \/ Proceed(t, "GetAtxNextEpoch",
                  [loc[t] EXCEPT !.atxEpochTotals = GetAtxEpoch(PrevEpoch(loc[t].epoch))])

\* lines 114-118
FetchGetAtxNextEpoch(t) ==
    /\ pc[t] = "GetAtxNextEpoch"
    /\ \/ Return(t)
       \/ Proceed(t, "GetAtxForEpoch",
                  [loc[t] EXCEPT !.atxNextEpochTotals = GetAtxEpoch(loc[t].epoch)])

\* lines 120-124 with 178-181: getHigestAtx(epoch - 1), its first query
FetchGetAtxForEpoch(t) ==
    /\ pc[t] = "GetAtxForEpoch"
    /\ \/ Return(t)
       \/ Proceed(t, "GetMalfeasanceNodes",
                  [loc[t] EXCEPT !.atxs = GetAtxForEpoch(PrevEpoch(loc[t].epoch))])

\* lines 183-207: the second query of getHigestAtx and its selection loop
FetchGetMalfeasanceNodes(t) ==
    /\ pc[t] = "GetMalfeasanceNodes"
    /\ \/ Return(t)
       \/ Proceed(t, "hexToBase64",
                  [loc[t] EXCEPT !.hexAtx = getHigestAtx(loc[t].atxs, DbMalfeasanceNodes)])

\* lines 126-130
FetchHexToBase64(t) ==
    /\ pc[t] = "hexToBase64"
    /\ \/ /\ hexToBase64(loc[t].hexAtx).err
          /\ Return(t)
       \/ /\ ~hexToBase64(loc[t].hexAtx).err
          /\ Proceed(t, "GetNumberOfSlots",
                     [loc[t] EXCEPT !.base64Atx = hexToBase64(loc[t].hexAtx).val])

\* lines 132-136, with the return of line 135 missing
FetchGetNumberOfSlotsNoReturn(t) ==
    /\ pc[t] = "GetNumberOfSlots"
    /\ \/ /\ pc' = [pc EXCEPT ![t] = "Store"]
          /\ loc' = [loc EXCEPT ![t].totalSlots = 0]
          /\ cycleErr' = TRUE
          /\ UNCHANGED <<atxVars, sinkVars, startup, dbLayer, networkInfo, readInfo, lastAssembled, cycleStart,
                         lastOutcome, subsVars>>
       \/ Proceed(t, "Store",
                  [loc[t] EXCEPT !.totalSlots =
                      GetNumberOfSlots(loc[t].atxEpochTotals.TotalWeight,
                                       loc[t].atxEpochTotals.TotalWeight, loc[t].epoch)])

\* lines 132-136
FetchGetNumberOfSlots(t) ==
    /\ pc[t] = "GetNumberOfSlots"
    /\ \/ Return(t)
       \/ Proceed(t, "Store",
                  [loc[t] EXCEPT !.totalSlots =
                      GetNumberOfSlots(loc[t].atxEpochTotals.TotalWeight,
                                       loc[t].atxEpochTotals.TotalWeight, loc[t].epoch)])

\* lines 138-161: the price is read and the assembled struct is stored
FetchStore(t) ==
    /\ pc[t] = "Store"
    /\ networkInfo' = SyncMapStore(networkInfo, INFO_KEY, Assemble(loc[t], GetPrice))
    /\ lastAssembled' = <<Assemble(loc[t], GetPrice)>>
    /\ lastOutcome' = "published"
    /\ startup' = IF t = "main" THEN [startup EXCEPT !.info = "published"] ELSE startup
    /\ pc' = [pc EXCEPT ![t] = AfterFetch(t)]
    /\ loc' = [loc EXCEPT ![t] = LocInit]
    /\ UNCHANGED <<atxVars, sinkVars, dbLayer, readInfo, cycleStart, cycleErr, subsVars>>

\* periodicNetworkInfoFetch (lines 56-63): the ticker goroutine is started
StartInfoTicker ==
    /\ pc["main"] = "periodicNetworkInfoFetch"
    /\ pc' = [pc EXCEPT !["main"] = "calculateEpochSubsidies", !["infoTicker"] = "idle"]
    /\ UNCHANGED <<atxVars, sinkVars, startup, dbLayer, loc, networkInfo, readInfo, lastAssembled, cycleStart,
                   cycleErr, lastOutcome, subsVars>>


-----------------------------------------------------------------------------
(* calculateEpochSubsidies (lines 163-175) *)

infoVars == <<loc, networkInfo, readInfo, lastAssembled, cycleStart, cycleErr, lastOutcome>>

BeginSubsidies(t) ==
    /\ pc' = [pc EXCEPT ![t] = "SubsGetLastProcessedLayer"]
    /\ UNCHANGED <<atxVars, sinkVars, startup, dbLayer, infoVars, subsVars>>

MainCallsSubsidies ==
    /\ pc["main"] = "calculateEpochSubsidies"
    /\ BeginSubsidies("main")

SubsTick ==
    /\ pc["subsTicker"] = "idle"
    /\ BeginSubsidies("subsTicker")

\* A loop that starts at the observed epoch instead of the one after it.
SubsidyLoopStartAtEpoch(epoch) == epoch

\* line 171: i := epoch + 1
SubsidyLoopStart(epoch) == (epoch + 1) % EpochMod

\* lines 164-171: the layer is read and the loop variable initialised
SubsGetLastProcessedLayer(t) ==
    /\ pc[t] = "SubsGetLastProcessedLayer"
    /\ \/ /\ pc' = [pc EXCEPT ![t] = AfterSubsidies(t)]
          /\ startup' = IF t = "main" THEN [startup EXCEPT !.subs = "aborted"] ELSE startup
          /\ UNCHANGED subLoc
       \/ /\ pc' = [pc EXCEPT ![t] = "SubsLoop"]
          /\ subLoc' = [subLoc EXCEPT ![t] = [epoch |-> GetEpoch(dbLayer),
                                              i |-> SubsidyLoopStart(GetEpoch(dbLayer))]]
          /\ UNCHANGED startup
    /\ UNCHANGED <<atxVars, sinkVars, dbLayer, infoVars, epochSubsidies, readSubsidy, subsObserved>>

\* lines 171-174: one iteration, i >= 2
SubsLoopBody(t) ==
    /\ pc[t] = "SubsLoop"
    /\ subLoc[t].i >= 2
    /\ epochSubsidies' = SyncMapStore(epochSubsidies, subLoc[t].i,
                                      EpochMathSubsidy(subLoc[t].i))
    /\ subLoc' = [subLoc EXCEPT ![t].i = (subLoc[t].i + EpochMod - 1) % EpochMod]
    /\ UNCHANGED <<atxVars, sinkVars, startup, dbLayer, pc, infoVars, readSubsidy, subsObserved>>

\* line 171: i < 2, the loop and the function end
SubsLoopExit(t) ==
    /\ pc[t] = "SubsLoop"
    /\ ~(subLoc[t].i >= 2)
    /\ pc' = [pc EXCEPT ![t] = AfterSubsidies(t)]
    /\ subsObserved' = IF subsObserved = NoValue \/ subsObserved[1] < subLoc[t].epoch
                       THEN <<subLoc[t].epoch>> ELSE subsObserved
    /\ subLoc' = [subLoc EXCEPT ![t] = SubLocInit]
    /\ startup' = IF t = "main"
                  THEN [startup EXCEPT !.subs = "stored", !.epoch = subLoc[t].epoch]
                  ELSE startup
    /\ UNCHANGED <<atxVars, sinkVars, dbLayer, infoVars, epochSubsidies, readSubsidy>>

\* periodicCalculateSubsidy (lines 65-72) and the return of NewNetworkState
StartSubsTicker ==
    /\ pc["main"] = "periodicCalculateSubsidy"
    /\ pc' = [pc EXCEPT !["main"] = "returned", !["subsTicker"] = "idle"]
    /\ UNCHANGED <<atxVars, sinkVars, startup, dbLayer, infoVars, subsVars>>

-----------------------------------------------------------------------------
(* Callers of the public read interface, once NewNetworkState has returned *)

ReaderGetInfo ==
    /\ pc["main"] = "returned"
    /\ readInfo' = <<GetInfo(networkInfo)>>
    /\ UNCHANGED <<atxVars, sinkVars, startup, dbLayer, pc, loc, networkInfo, lastAssembled, cycleStart, cycleErr,
                   lastOutcome, subsVars>>

\* The epochs the model's layers map to, and two past them.
ReadEpochs == 0..(GetEpoch(MaxLayer) + 2)

ReaderGetEpochSubsidy ==
    /\ pc["main"] = "returned"
    /\ \E e \in ReadEpochs :
          readSubsidy' = <<[epoch |-> e, value |-> GetEpochSubsidy(epochSubsidies, e)]>>
    /\ UNCHANGED <<atxVars, sinkVars, startup, dbLayer, pc, infoVars, epochSubsidies, subLoc, subsObserved>>

\* The sink of another process writes a layer: the last processed layer changes.
DbLayerChange ==
    /\ \E l \in 0..MaxLayer : l # dbLayer /\ dbLayer' = l
    /\ UNCHANGED <<atxVars, sinkVars, startup, pc, infoVars, subsVars>>

\* The sink of another process writes the next layer: the last processed layer
\* advances by one.
DbLayerAdvance ==
    /\ dbLayer < MaxLayer
    /\ dbLayer' = dbLayer + 1
    /\ UNCHANGED <<atxVars, sinkVars, startup, pc, infoVars, subsVars>>

-----------------------------------------------------------------------------
(* getHigestAtx on arbitrary query results (specification AtxSpec) *)

Nodes == {"n1", "n2"}

\* The identifier of the ATX at position i of a query result: identifiers are
\* hashes, no two ATXs share one and none is empty.
AtxIdAt(i) == <<"a", HexDigits[i + 1]>>

\* Tick values: 0, small ones, and the largest the width holds.
BaseTicks == {0, 1, WordMod - 1}

TickCounts == {0, 1, 2}

AtxShapes == [NodeID : Nodes, BaseTick : BaseTicks, TickCount : TickCounts]

AtxListOf(f) ==
    [i \in DOMAIN f |-> [AtxID |-> AtxIdAt(i), NodeID |-> f[i].NodeID,
                         BaseTick |-> f[i].BaseTick, TickCount |-> f[i].TickCount]]

AtxInit ==
    /\ \E n \in 0..MaxAtxs : \E f \in [1..n -> AtxShapes] : qAtxs = AtxListOf(f)
    /\ qMalfeasance \in SUBSET Nodes
    /\ gotAtxID = NoValue

\* lines 188-207 on the two query results
CallGetHigestAtx ==
    /\ gotAtxID = NoValue
    /\ gotAtxID' = <<getHigestAtx(qAtxs, qMalfeasance)>>
    /\ UNCHANGED <<cacheVars, sinkVars, qAtxs, qMalfeasance>>

-----------------------------------------------------------------------------
(* Sink: the broker, the write database and the five consumption loops *)

Subjects == {"layers", "rewards", "atx", "transactions.result", "transactions.created"}

\* The loops that read a field of the decoded value before they test errJson
\* (lines 154, 194, 228); the transaction loops print the pointer itself.
DerefBeforeCheck == {"layers", "rewards", "atx"}

Facts == {"f1", "f2"}

\* What a payload is to json.Unmarshal: a fact; no JSON at all (error, the
\* pointer stays nil); JSON of the wrong type (error, the pointer is set); the
\* JSON literal null (no error, the pointer is set to nil).
Kinds == {"fact", "syntax", "type", "null"}

\* s.xSub.Fetch(10, ...): the size of a batch
FetchBatch == 10

Min(a, b) == IF a < b THEN a ELSE b

\* The five js.AddConsumer calls of NewSink (lines 71-107), in program order.
ConsumerConfigs ==
    <<[stream |-> "layers", Durable |-> "state-api-process",
       DeliverSubject |-> "layers", DeliverGroup |-> "state-api-process-layers"],
      [stream |-> "rewards", Durable |-> "state-api-process-rewards",
       DeliverSubject |-> "rewards", DeliverGroup |-> "state-api-process-rewards"],
      [stream |-> "atx", Durable |-> "state-api-process-atx",
       DeliverSubject |-> "atx", DeliverGroup |-> "state-api-process-atx"],
      [stream |-> "transactions", Durable |-> "state-api-process-transactions-result",
       DeliverSubject |-> "transactions.result",
       DeliverGroup |-> "state-api-process-transactions"],
      [stream |-> "transactions", Durable |-> "state-api-process-transactions-created",
       DeliverSubject |-> "transactions.created",
       DeliverGroup |-> "state-api-process-transactions"]>>

\* The five js.PullSubscribe calls (lines 110-129), in program order: the
\* subject, the durable name and the stream bound, with the loop that fetches
\* from the subscription (lines 131-135 and the Start*Sink methods).
PullSubscriptions ==
    <<[loop |-> "layers", subject |-> "layers", durable |-> "layers",
       stream |-> "layers"],
      [loop |-> "rewards", subject |-> "rewards", durable |-> "rewards",
       stream |-> "rewards"],
      [loop |-> "atx", subject |-> "atx", durable |-> "atx", stream |-> "atx"],
      [loop |-> "transactions.result", subject |-> "transactions.result",
       durable |-> "transactions-result", stream |-> "transactions"],
      [loop |-> "transactions.created", subject |-> "transactions.created",
       durable |-> "transactions-created", stream |-> "transactions"]>>

SubscriptionOf(w) ==
    PullSubscriptions[CHOOSE i \in DOMAIN PullSubscriptions : PullSubscriptions[i].loop = w]

\* Both transaction loops subscribed under one durable name.
DurableOfShared(w) ==
    IF SubscriptionOf(w).stream = "transactions" THEN "transactions"
    ELSE SubscriptionOf(w).durable

\* The durable pull consumer the loop w fetches from.
DurableOf(w) == SubscriptionOf(w).durable

\* The DeliverGroup AddConsumer was given for the subject.
GroupOf(subject) ==
    ConsumerConfigs[CHOOSE i \in DOMAIN ConsumerConfigs :
                        ConsumerConfigs[i].DeliverSubject = subject].DeliverGroup

Consumers == {DurableOf(w) : w \in Subjects}

\* The filter subject of a pull consumer: the subject of the PullSubscribe call
\* that created it, the first one made with its durable name.
ConsumerFilter(d) ==
    PullSubscriptions[CHOOSE i \in DOMAIN PullSubscriptions :
        /\ DurableOf(PullSubscriptions[i].loop) = d
        /\ \A j \in 1..(i - 1) : DurableOf(PullSubscriptions[j].loop) # d].subject

\* NewSink has returned a Sink with every consumer created and every
\* subscription established.
Established ==
    /\ bpc = [step |-> "returned", i |-> 0]
    /\ created = {ConsumerConfigs[i].Durable : i \in DOMAIN ConsumerConfigs}
    /\ subs = [w \in Subjects |-> "bound"]

\* NewSink is called.
NotBooted ==
    /\ bpc = [step |-> "Connect", i |-> 0]
    /\ created = {}
    /\ subs = [w \in Subjects |-> "unset"]

Broker ==
    /\ proc = "running"
    /\ msgs = <<>>
    /\ pending = [d \in Consumers |-> <<>>]
    /\ acked = {}
    /\ naked = {}
    /\ store = [s \in Subjects |-> {}]
    /\ saveFailures = 0
    /\ wpc = [s \in Subjects |-> "notStarted"]
    /\ batch = [s \in Subjects |-> <<>>]
    /\ saveErr = [s \in Subjects |-> FALSE]
    /\ unmarshalled = {}
    /\ delivery = [s \in Subjects |-> <<>>]
    /\ polls = 0

\* The broker holds n facts published on subject s before any loop is started.
BrokerWithBacklog(s, n) ==
    /\ proc = "running"
    /\ msgs = [i \in 1..n |-> [subject |-> s, kind |-> "fact",
                               fact |-> IF i % 2 = 1 THEN "f1" ELSE "f2"]]
    /\ pending = [d \in Consumers |->
                    IF ConsumerFilter(d) = s THEN [i \in 1..n |-> i] ELSE <<>>]
    /\ acked = {}
    /\ naked = {}
    /\ store = [w \in Subjects |-> {}]
    /\ saveFailures = 0
    /\ wpc = [w \in Subjects |-> "notStarted"]
    /\ batch = [w \in Subjects |-> <<>>]
    /\ saveErr = [w \in Subjects |-> FALSE]
    /\ unmarshalled = {}
    /\ delivery = [w \in Subjects |-> <<>>]
    /\ polls = 0

bootFrame == <<cacheVars, atxVars, msgs, pending, acked, naked, store, saveFailures,
               wpc, batch, saveErr, unmarshalled, delivery, polls>>

\* lines 64-69: nats.Connect; a failure panics. nc.JetStream() is called
\* without options and its error is discarded.
NewSinkConnect ==
    /\ proc = "running"
    /\ bpc.step = "Connect"
    /\ \/ /\ bpc' = [step |-> "AddConsumer", i |-> 1]
          /\ UNCHANGED proc
       \/ /\ proc' = "panicked"
          /\ UNCHANGED bpc
    /\ UNCHANGED <<bootFrame, created, subs>>

\* lines 71-107: one js.AddConsumer call; both of its results are discarded.
NewSinkAddConsumer ==
    /\ proc = "running"
    /\ bpc.step = "AddConsumer"
    /\ \/ created' = created \cup {ConsumerConfigs[bpc.i].Durable}
       \/ UNCHANGED created
    /\ bpc' = IF bpc.i < Len(ConsumerConfigs)
              THEN [step |-> "AddConsumer", i |-> bpc.i + 1]
              ELSE [step |-> "PullSubscribe", i |-> 1]
    /\ UNCHANGED <<bootFrame, proc, subs>>

\* lines 110-129: one js.PullSubscribe call; an error is printed and the
\* subscription stays nil.
NewSinkPullSubscribe ==
    /\ proc = "running"
    /\ bpc.step = "PullSubscribe"
    /\ \E r \in {"bound", "nil"} :
          subs' = [subs EXCEPT ![PullSubscriptions[bpc.i].loop] = r]
    /\ bpc' = IF bpc.i < Len(PullSubscriptions)
              THEN [step |-> "PullSubscribe", i |-> bpc.i + 1]
              ELSE [step |-> "Return", i |-> 0]
    /\ UNCHANGED <<bootFrame, proc, created>>

\* lines 130-137: the Sink is returned with the five subscriptions as they are.
NewSinkReturn ==
    /\ proc = "running"
    /\ bpc.step = "Return"
    /\ bpc' = [step |-> "returned", i |-> 0]
    /\ UNCHANGED <<bootFrame, proc, created, subs>>

SinkIdle ==
    /\ Established
    /\ Broker

\* The upstream node publishes a message on a subject: the broker queues it for
\* every pull consumer whose filter subject is that subject.
Publish(s) ==
    /\ Len(msgs) < MaxMsgs
    /\ \E k \in Kinds : \E f \in Facts :
          /\ k # "fact" => f = "f1"
          /\ msgs' = Append(msgs, [subject |-> s, kind |-> k, fact |-> f])
    /\ pending' = [d \in Consumers |->
                     IF ConsumerFilter(d) = s THEN Append(pending[d], Len(msgs) + 1)
                     ELSE pending[d]]
    /\ UNCHANGED <<cacheVars, atxVars, bootVars, polls, proc, acked, naked, store, saveFailures, wpc,
                   batch, saveErr, unmarshalled, delivery>>

\* StartRewardsSink and its four siblings: the goroutine of the loop is started.
StartSink(s) ==
    /\ proc = "running"
    /\ bpc.step = "returned"
    /\ wpc[s] = "notStarted"
    /\ wpc' = [wpc EXCEPT ![s] = "Fetch"]
    /\ UNCHANGED <<cacheVars, atxVars, bootVars, polls, proc, msgs, pending, acked, naked, store,
                   saveFailures, batch, saveErr, unmarshalled, delivery>>

noFetchFrame == <<cacheVars, atxVars, bootVars, proc, msgs, pending, acked, naked,
                  store, saveFailures, wpc, batch, saveErr, unmarshalled, delivery>>

\* A loop that takes the timeout for a fatal error.
FetchNothingDies(s) ==
    /\ proc = "running"
    /\ wpc[s] = "Fetch"
    /\ subs[s] = "bound"
    /\ polls < MaxPolls
    /\ polls' = polls + 1
    /\ proc' = "exited"
    /\ UNCHANGED <<cacheVars, atxVars, bootVars, msgs, pending, acked, naked,
                   store, saveFailures, wpc, batch, saveErr, unmarshalled, delivery>>

\* Fetch returns no message: nats.ErrTimeout after the wait (lines 146-149), or
\* another error, after which the range over the nil batch does nothing. The
\* loop is at its Fetch call again.
FetchNothing(s) ==
    /\ proc = "running"
    /\ wpc[s] = "Fetch"
    /\ subs[s] = "bound"
    /\ polls < MaxPolls
    /\ polls' = polls + 1
    /\ UNCHANGED noFetchFrame

\* Fetch on a nil *nats.Subscription returns nats.ErrBadSubscription at once:
\* it is not ErrTimeout, the batch is nil, and the loop calls Fetch again.
FetchBadSubscription(s) ==
    /\ proc = "running"
    /\ wpc[s] = "Fetch"
    /\ subs[s] = "nil"
    /\ polls < MaxPolls
    /\ polls' = polls + 1
    /\ UNCHANGED noFetchFrame

\* Fetch returns between one and FetchBatch of the messages to deliver (line 145).
FetchMessages(s) ==
    /\ proc = "running"
    /\ wpc[s] = "Fetch"
    /\ subs[s] = "bound"
    /\ \E n \in 1..Min(FetchBatch, Len(pending[DurableOf(s)])) :
          /\ batch' = [batch EXCEPT ![s] = SubSeq(pending[DurableOf(s)], 1, n)]
          /\ pending' = [pending EXCEPT ![DurableOf(s)] = SubSeq(@, n + 1, Len(@))]
    /\ wpc' = [wpc EXCEPT ![s] = "Unmarshal"]
    /\ UNCHANGED <<cacheVars, atxVars, bootVars, polls, proc, msgs, acked, naked, store, saveFailures,
                   saveErr, unmarshalled, delivery>>

\* The process ends: every goroutine stops where it is.
Dies(how) ==
    /\ proc' = how
    /\ UNCHANGED <<cacheVars, atxVars, bootVars, polls, msgs, pending, acked, naked, store, saveFailures,
                   wpc, batch, saveErr, delivery>>

\* WriteDB.Save* is called with the fact and returns: nil, the fact being
\* stored (an upsert), or an error.
SaveCalled(s, m) ==
    /\ \/ /\ store' = [store EXCEPT ![s] = @ \cup {msgs[m].fact}]
          /\ saveErr' = [saveErr EXCEPT ![s] = FALSE]
          /\ delivery' = [delivery EXCEPT ![s] =
                            <<[msg |-> m, saved |-> TRUE, acks |-> 0, naks |-> 0]>>]
          /\ UNCHANGED saveFailures
       \/ /\ saveFailures < MaxSaveFailures
          /\ saveFailures' = saveFailures + 1
          /\ saveErr' = [saveErr EXCEPT ![s] = TRUE]
          /\ delivery' = [delivery EXCEPT ![s] =
                            <<[msg |-> m, saved |-> FALSE, acks |-> 0, naks |-> 0]>>]
          /\ UNCHANGED store
    /\ wpc' = [wpc EXCEPT ![s] = "Respond"]
    /\ UNCHANGED <<cacheVars, atxVars, bootVars, polls, proc, msgs, pending, acked, naked, batch>>

\* SaveTransactions is called with the nil pointer a null payload decodes to.
\* What WriteDB does with it is not in the sources: it returns nil or an
\* error without storing a fact, or the dereference panics.
SaveCalledWithNil(s) ==
    \/ /\ \E e \in BOOLEAN : saveErr' = [saveErr EXCEPT ![s] = e]
       /\ wpc' = [wpc EXCEPT ![s] = "Respond"]
       /\ delivery' = [delivery EXCEPT ![s] = <<>>]
       /\ UNCHANGED <<cacheVars, atxVars, bootVars, polls, proc, msgs, pending, acked, naked, store,
                      saveFailures, batch>>
    \/ Dies("panicked")

\* Lines 152-159 (and their siblings) for the head of the batch: json.Unmarshal,
\* the print of the decoded value, the test of errJson, the Save* call.
Unmarshal(s) ==
    /\ proc = "running"
    /\ wpc[s] = "Unmarshal"
    /\ unmarshalled' = unmarshalled \cup {Head(batch[s])}
    /\ LET m == Head(batch[s]) IN
       \/ /\ msgs[m].kind = "fact"
          /\ SaveCalled(s, m)
       \/ /\ msgs[m].kind \in {"syntax", "null"}
          /\ s \in DerefBeforeCheck
          /\ Dies("panicked")
       \/ /\ msgs[m].kind = "syntax"
          /\ s \notin DerefBeforeCheck
          /\ Dies("exited")
       \/ /\ msgs[m].kind = "type"
          /\ Dies("exited")
       \/ /\ msgs[m].kind = "null"
          /\ s \notin DerefBeforeCheck
          /\ SaveCalledWithNil(s)

\* After a response the loop takes the next message of the batch, or fetches.
NextMessage(s) ==
    /\ batch' = [batch EXCEPT ![s] = Tail(@)]
    /\ wpc' = [wpc EXCEPT ![s] = IF Len(batch[s]) > 1 THEN "Unmarshal" ELSE "Fetch"]

Responded(s, what) ==
    IF delivery[s] # <<>> /\ delivery[s][1].msg = Head(batch[s])
    THEN [delivery EXCEPT ![s] =
            <<[@[1] EXCEPT ![what] = @ + 1]>>]
    ELSE delivery

\* A loop that acknowledges whatever Save* returned.
RespondAlwaysAck(s) ==
    /\ proc = "running"
    /\ wpc[s] = "Respond"
    /\ acked' = acked \cup {Head(batch[s])}
    /\ delivery' = Responded(s, "acks")
    /\ NextMessage(s)
    /\ UNCHANGED <<cacheVars, atxVars, bootVars, polls, proc, msgs, pending, naked, store, saveFailures,
                   saveErr, unmarshalled>>

\* Lines 161-168 (and their siblings): Nak when saveErr != nil, which has the
\* broker deliver the message again, Ack otherwise.
Respond(s) ==
    /\ proc = "running"
    /\ wpc[s] = "Respond"
    /\ \/ /\ saveErr[s]
          /\ naked' = naked \cup {Head(batch[s])}
          /\ pending' = [pending EXCEPT ![DurableOf(s)] = Append(@, Head(batch[s]))]
          /\ delivery' = Responded(s, "naks")
          /\ UNCHANGED acked
       \/ /\ ~saveErr[s]
          /\ acked' = acked \cup {Head(batch[s])}
          /\ delivery' = Responded(s, "acks")
          /\ UNCHANGED <<naked, pending>>
    /\ NextMessage(s)
    /\ UNCHANGED <<cacheVars, atxVars, bootVars, polls, proc, msgs, store, saveFailures, saveErr,
                   unmarshalled>>

-----------------------------------------------------------------------------
(* Specifications *)

\* The other parts of the program, at rest.
AtxIdle ==
    /\ qAtxs = <<>>
    /\ qMalfeasance = {}
    /\ gotAtxID = NoValue

CacheInit ==
    /\ dbLayer \in 0..MaxLayer
    /\ pc = [t \in Threads |-> IF t = "main" THEN "fetchNetworkInfo" ELSE "notStarted"]
    /\ loc = [t \in InfoThreads |-> LocInit]
    /\ networkInfo = SyncMapEmpty
    /\ epochSubsidies = SyncMapEmpty
    /\ subLoc = [t \in SubsThreads |-> SubLocInit]
    /\ readInfo = NoValue
    /\ readSubsidy = NoValue
    /\ lastAssembled = NoValue
    /\ cycleStart = SyncMapEmpty
    /\ cycleErr = FALSE
    /\ lastOutcome = "none"
    /\ subsObserved = NoValue
    /\ startup = [info |-> "none", subs |-> "none", epoch |-> 0]

\* The cache before NewNetworkState has run; it stays so in AtxSpec and SinkSpec.
CacheIdle ==
    /\ dbLayer = 0
    /\ pc = [t \in Threads |-> IF t = "main" THEN "fetchNetworkInfo" ELSE "notStarted"]
    /\ loc = [t \in InfoThreads |-> LocInit]
    /\ networkInfo = SyncMapEmpty
    /\ epochSubsidies = SyncMapEmpty
    /\ subLoc = [t \in SubsThreads |-> SubLocInit]
    /\ readInfo = NoValue
    /\ readSubsidy = NoValue
    /\ lastAssembled = NoValue
    /\ cycleStart = SyncMapEmpty
    /\ cycleErr = FALSE
    /\ lastOutcome = "none"
    /\ subsObserved = NoValue
    /\ startup = [info |-> "none", subs |-> "none", epoch |-> 0]

Init == CacheInit /\ AtxIdle /\ SinkIdle

FetchStep(t) ==
    \/ FetchGetLastProcessedLayer(t)
    \/ FetchCountAtxEpoch(t)
    \/ FetchCountAtxNextEpoch(t)
    \/ FetchCountAccounts(t)
    \/ FetchGetNetworkInfo(t)
    \/ FetchGetAtxEpoch(t)
    \/ FetchGetAtxNextEpoch(t)
    \/ FetchGetAtxForEpoch(t)
    \/ FetchGetMalfeasanceNodes(t)
    \/ FetchHexToBase64(t)
    \/ FetchGetNumberOfSlots(t)
    \/ FetchStore(t)

SubsStep(t) ==
    \/ SubsGetLastProcessedLayer(t)
    \/ SubsLoopBody(t)
    \/ SubsLoopExit(t)

\* NewNetworkState, the snapshot ticker and the readers of GetInfo.
Next ==
    \/ MainCallsFetch
    \/ \E t \in InfoThreads : FetchStep(t)
    \/ StartInfoTicker
    \/ InfoTick
    \/ MainCallsSubsidies
    \/ SubsStep("main")
    \/ StartSubsTicker
    \/ ReaderGetInfo
    \/ DbLayerChange

Spec == Init /\ [][Next]_vars

\* NewNetworkState, the subsidy ticker and the readers of GetEpochSubsidy.
SubsidyNext ==
    \/ MainCallsFetch
    \/ FetchStep("main")
    \/ StartInfoTicker
    \/ MainCallsSubsidies
    \/ \E t \in SubsThreads : SubsStep(t)
    \/ StartSubsTicker
    \/ SubsTick
    \/ ReaderGetEpochSubsidy
    \/ DbLayerChange

SubsidySpec == Init /\ [][SubsidyNext]_vars

\* NewNetworkState and both tickers, without readers, while the last processed
\* layer advances.
TickersNext ==
    \/ MainCallsFetch
    \/ \E t \in InfoThreads : FetchStep(t)
    \/ StartInfoTicker
    \/ InfoTick
    \/ MainCallsSubsidies
    \/ \E t \in SubsThreads : SubsStep(t)
    \/ StartSubsTicker
    \/ SubsTick
    \/ DbLayerAdvance

TickersSpec == Init /\ [][TickersNext]_vars

\* getHigestAtx applied to every pair of query results within the bounds.
AtxStart == CacheIdle /\ AtxInit /\ SinkIdle

AtxNext == CallGetHigestAtx

AtxSpec == AtxStart /\ [][AtxNext]_vars

\* The five consumption loops, the upstream publisher and the broker.
SinkStart == CacheIdle /\ AtxIdle /\ SinkIdle

SinkNext ==
    \E s \in Subjects :
        \/ Publish(s)
        \/ StartSink(s)
        \/ FetchNothing(s)
        \/ FetchMessages(s)
        \/ Unmarshal(s)
        \/ Respond(s)

SinkSpec == SinkStart /\ [][SinkNext]_vars

\* NewSink from its first line, the loops started on the Sink it returns, and
\* their Fetch calls while no message is published.
BootStart == CacheIdle /\ AtxIdle /\ NotBooted /\ Broker

BootNext ==
    \/ NewSinkConnect
    \/ NewSinkAddConsumer
    \/ NewSinkPullSubscribe
    \/ NewSinkReturn
    \/ \E s \in Subjects :
          \/ StartSink(s)
          \/ FetchNothing(s)
          \/ FetchBadSubscription(s)

BootSpec == BootStart /\ [][BootNext]_vars

\* The loops on a broker that already holds messages of one subject, more than
\* a Fetch asks for, and publishes no more.
BacklogSubjects == {"rewards", "transactions.created"}

PollStart ==
    /\ CacheIdle /\ AtxIdle /\ Established
    /\ \E s \in BacklogSubjects : \E n \in 0..MaxBacklog : BrokerWithBacklog(s, n)

PollNext ==
    \E s \in Subjects :
        \/ StartSink(s)
        \/ FetchNothing(s)
        \/ FetchMessages(s)
        \/ Unmarshal(s)
        \/ Respond(s)

PollSpec == PollStart /\ [][PollNext]_vars

\* Each started loop keeps running while the process lives (the Go scheduler
\* starves no goroutine), and Save* fails at most MaxSaveFailures times.
SinkFairSpec ==
    /\ SinkSpec
    /\ \A s \in Subjects :
          /\ WF_vars(StartSink(s))
          /\ WF_vars(FetchMessages(s))
          /\ WF_vars(Unmarshal(s))
          /\ WF_vars(Respond(s))


-----------------------------------------------------------------------------
(* Properties of the snapshot cache (specification Spec) *)

\* C1: under every interleaving of fetchNetworkInfo cycles with GetInfo calls, the
\* snapshot a GetInfo call returns is the zero-valued snapshot or exactly the
\* struct one refresh cycle assembled from its own locals; never a mix of two
\* cycles and never a partly assembled one.
C1_AtomicSnapshotVisibility ==
    [][ReaderGetInfo => (readInfo' = <<ZeroInfo>> \/ readInfo' = lastAssembled)]_vars

\* A reader holds a published snapshot while the ticker's cycle, which read
\* another layer, is under way.
C1_Witness ==
    /\ readInfo # NoValue
    /\ readInfo # <<ZeroInfo>>
    /\ InCycle("infoTicker")
    /\ pc["infoTicker"] # "GetLastProcessedLayer"
    /\ loc["infoTicker"].layer # readInfo[1].Layer

\* C2: when a collaborator call of a fetchNetworkInfo cycle returns an error, the
\* cycle ends there and publishes nothing: the cache is what it was when the
\* cycle began, and the ticker can start the next cycle.
C2_FailedCycleLeavesCacheUnchanged ==
    /\ cycleErr =>
          /\ lastOutcome = "aborted"
          /\ \A t \in InfoThreads : ~InCycle(t)
          /\ networkInfo = cycleStart
          /\ GetInfo(networkInfo) = GetInfo(cycleStart)
          /\ pc["infoTicker"] = "idle" => ENABLED InfoTick
          /\ pc["infoTicker"] = "notStarted" =>
                (pc["main"] = "periodicNetworkInfoFetch" /\ ENABLED StartInfoTicker)
    /\ lastOutcome = "running" => networkInfo = cycleStart

\* A cycle of the ticker failed after an earlier cycle had published.
C2_Witness ==
    /\ cycleErr
    /\ lastOutcome = "aborted"
    /\ pc["infoTicker"] = "idle"
    /\ lastAssembled # NoValue
    /\ <<GetInfo(networkInfo)>> = lastAssembled

NoEligibleAtx(atxs, malfeasanceNodes) ==
    \A i \in 1..Len(atxs) : atxs[i].NodeID \in malfeasanceNodes

\* C7: when the ATX list of the epoch is empty or every ATX in it is authored by
\* a malfeasant node, getHigestAtx returns the empty identifier without error,
\* hexToBase64 does not fail on it, and the snapshot the cycle publishes has
\* AtxHex and AtxBase64 both empty.
C7_EmptyEpochSelection ==
    /\ [](\A t \in InfoThreads :
            (pc[t] \in {"hexToBase64", "GetNumberOfSlots", "Store"}
             /\ NoEligibleAtx(loc[t].atxs, DbMalfeasanceNodes)) =>
                /\ loc[t].hexAtx = <<>>
                /\ ~hexToBase64(loc[t].hexAtx).err
                /\ pc[t] # "hexToBase64" => loc[t].base64Atx = <<>>)
    /\ [][\A t \in InfoThreads :
            (FetchStore(t) /\ NoEligibleAtx(loc[t].atxs, DbMalfeasanceNodes)) =>
                /\ SyncMapHas(networkInfo', INFO_KEY)
                /\ GetInfo(networkInfo').AtxHex = <<>>
                /\ GetInfo(networkInfo').AtxBase64 = <<>>]_vars

\* A snapshot was published for an epoch whose previous epoch holds ATXs, all
\* of them by malfeasant nodes.
C7_Witness ==
    /\ SyncMapHas(networkInfo, INFO_KEY)
    /\ GetAtxForEpoch(PrevEpoch(GetInfo(networkInfo).Epoch)) # <<>>
    /\ NoEligibleAtx(GetAtxForEpoch(PrevEpoch(GetInfo(networkInfo).Epoch)),
                     DbMalfeasanceNodes)
    /\ GetInfo(networkInfo).AtxHex = <<>>
    /\ GetInfo(networkInfo).AtxBase64 = <<>>

\* C10: at every point GetInfo returns the snapshot the most recent completed
\* refresh cycle stored, or the zero-valued snapshot when no cycle has completed;
\* a call is possible whatever a refresh cycle is doing.
C10_GetInfoReadContract ==
    /\ GetInfo(networkInfo) = (IF lastAssembled = NoValue THEN ZeroInfo ELSE lastAssembled[1])
    /\ (lastOutcome \in {"none"} => lastAssembled = NoValue)
    /\ pc["main"] = "returned" => ENABLED ReaderGetInfo

\* A reader got the published snapshot while the ticker's cycle was about to store.
C10_Witness ==
    /\ pc["infoTicker"] = "Store"
    /\ readInfo # NoValue
    /\ readInfo # <<ZeroInfo>>
    /\ readInfo = <<GetInfo(networkInfo)>>

-----------------------------------------------------------------------------
(* Properties of the subsidy table (specification SubsidySpec) *)

\* C8: after a calculateEpochSubsidies cycle that observed epoch E has completed,
\* GetEpochSubsidy(e) is the EpochMath subsidy of e, not zero, for every e with
\* 2 <= e <= E + 1, and 0 for every e < 2; this stays so in every later state.
C8_SubsidyCoverage ==
    subsObserved # NoValue =>
        /\ \A e \in 2..(subsObserved[1] + 1) :
              /\ GetEpochSubsidy(epochSubsidies, e) = EpochMathSubsidy(e)
              /\ GetEpochSubsidy(epochSubsidies, e) # 0
        /\ \A e \in 0..1 : GetEpochSubsidy(epochSubsidies, e) = 0

\* A cycle that observed an epoch of 2 or more completed and a reader got the
\* subsidy of the epoch after it.
C8_Witness ==
    /\ subsObserved # NoValue
    /\ subsObserved[1] >= 2
    /\ readSubsidy # NoValue
    /\ readSubsidy[1].epoch = subsObserved[1] + 1
    /\ readSubsidy[1].value = EpochMathSubsidy(subsObserved[1] + 1)

\* C9: no step, of a cycle that fails or that observes a lower epoch included,
\* removes an entry of the subsidy table or changes the non-zero value
\* GetEpochSubsidy returns for an epoch.
C9_SubsidyTableStable ==
    [][/\ DOMAIN epochSubsidies \subseteq DOMAIN epochSubsidies'
       /\ \A e \in 0..(EpochMod - 1) :
             GetEpochSubsidy(epochSubsidies, e) # 0 =>
                GetEpochSubsidy(epochSubsidies', e) = GetEpochSubsidy(epochSubsidies, e)]_vars

\* A reader got a non-zero subsidy for an epoch, and a later cycle that observed
\* an epoch below it is in its loop with the entry still in place.
C9_Witness ==
    /\ readSubsidy # NoValue
    /\ readSubsidy[1].value # 0
    /\ pc["subsTicker"] = "SubsLoop"
    /\ subLoc["subsTicker"].epoch + 1 < readSubsidy[1].epoch
    /\ GetEpochSubsidy(epochSubsidies, readSubsidy[1].epoch) = readSubsidy[1].value

-----------------------------------------------------------------------------
(* Sink claims *)

\* errJson != nil: the payload is no JSON, or JSON of another type.
DecodeFails(m) == msgs[m].kind \in {"syntax", "type"}

\* The loop of subject s still holds message m (decoded, not yet answered).
InHand(s, m) ==
    /\ wpc[s] \in {"Unmarshal", "Respond"}
    /\ batch[s] # <<>>
    /\ Head(batch[s]) = m

\* C3: a message whose payload fails to decode is negative-acknowledged and
\* never acknowledged, and the worker and the process keep running, so that a
\* later well-formed message on the subject is still processed.
C3_RedeliveryOnDecodeFailure ==
    \A m \in unmarshalled :
        DecodeFails(m) =>
            /\ proc = "running"
            /\ m \notin acked
            /\ ~InHand(msgs[m].subject, m) => m \in naked

\* C4: for each delivery of a message that decodes, at most one response is
\* sent, exactly one once the loop has moved on; it is Ack only if the Save*
\* call of that delivery returned nil and Nak only if it returned an error; an
\* acknowledged fact is in the store.
C4_AckGatedOnPersistence ==
    /\ \A s \in Subjects :
          delivery[s] # <<>> =>
              LET d == delivery[s][1] IN
              /\ d.acks + d.naks <= 1
              /\ d.acks = 1 => d.saved /\ msgs[d.msg].fact \in store[s]
              /\ d.naks = 1 => ~d.saved
              /\ ~InHand(s, d.msg) => d.acks + d.naks = 1
    /\ \A m \in acked :
          msgs[m].kind = "fact" => msgs[m].fact \in store[msgs[m].subject]

\* A message was negative-acknowledged after a failed Save*, delivered again,
\* saved and acknowledged.
C4_Witness ==
    \E s \in Subjects :
        /\ delivery[s] # <<>>
        /\ delivery[s][1].acks = 1
        /\ delivery[s][1].saved
        /\ delivery[s][1].msg \in naked
        /\ ~InHand(s, delivery[s][1].msg)

PublishedFacts(s) ==
    {msgs[m].fact : m \in {i \in DOMAIN msgs : msgs[i].subject = s /\ msgs[i].kind = "fact"}}

\* C5: with fair workers, a redelivering broker and Save* calls that
\* eventually succeed, every well-formed message published is eventually
\* persisted and acknowledged, and the store ends up holding exactly the
\* distinct facts published.
C5_EventualIngestion ==
    /\ \A i \in 1..MaxMsgs :
          (i \in DOMAIN msgs /\ msgs[i].kind = "fact")
              ~> (i \in acked /\ msgs[i].fact \in store[msgs[i].subject])
    /\ <>[](\A s \in Subjects : store[s] = PublishedFacts(s))

-----------------------------------------------------------------------------
(* getHigestAtx claims *)

Flagged(i) == qAtxs[i].NodeID \in qMalfeasance

\* ATX i is the only one of maximum height and ATX j the only one of the
\* second-highest height.
HighestAndSecond(i, j) ==
    /\ i # j
    /\ AtxHeight(qAtxs[i]) > AtxHeight(qAtxs[j])
    /\ \A k \in DOMAIN qAtxs \ {i, j} : AtxHeight(qAtxs[j]) > AtxHeight(qAtxs[k])

\* C6: getHigestAtx never returns the identifier of an ATX of a flagged node,
\* and when the maximum-height ATX is of a flagged node and the second-highest
\* of a clean node it returns the clean node's ATX.
C6_MalfeasanceExclusion ==
    gotAtxID # NoValue =>
        /\ \A i \in DOMAIN qAtxs : Flagged(i) => gotAtxID[1] # qAtxs[i].AtxID
        /\ \A i, j \in DOMAIN qAtxs :
              (HighestAndSecond(i, j) /\ Flagged(i) /\ ~Flagged(j))
                  => gotAtxID[1] = qAtxs[j].AtxID

\* The exclusion alone: no identifier of a flagged node's ATX is returned.
C6_NeverFlagged ==
    gotAtxID # NoValue =>
        \A i \in DOMAIN qAtxs : Flagged(i) => gotAtxID[1] # qAtxs[i].AtxID

-----------------------------------------------------------------------------
(* NewSink claims *)

AllDurables == {ConsumerConfigs[i].Durable : i \in DOMAIN ConsumerConfigs}

\* C11: NewSink returns a Sink only when every durable consumer was created and
\* every pull subscription established, and no consumption loop runs on a
\* missing subscription.
C11_BootstrapFailureIsFatal ==
    /\ bpc.step = "returned" =>
          /\ created = AllDurables
          /\ \A w \in Subjects : subs[w] = "bound"
    /\ \A w \in Subjects : wpc[w] # "notStarted" => subs[w] = "bound"

\* The part of C11 the code keeps: a broker that cannot be reached ends the
\* process before any Sink exists.
C11_ConnectFailureIsFatal ==
    (proc = "panicked") => (bpc.step = "Connect" /\ \A w \in Subjects : wpc[w] = "notStarted")

\* A message is queued for, and fetched by, the loop of its own subject only.
DeliveredToOwnLoop ==
    /\ \A d \in Consumers : \A i \in DOMAIN pending[d] :
          msgs[pending[d][i]].subject = ConsumerFilter(d)
    /\ \A w \in Subjects : \A i \in DOMAIN batch[w] : msgs[batch[w][i]].subject = w
    /\ \A w \in Subjects :
          store[w] \subseteq {msgs[m].fact : m \in {i \in DOMAIN msgs : msgs[i].subject = w}}

-----------------------------------------------------------------------------
(* Attribution of the snapshot's fields (specification Spec) *)

\* C13: a published snapshot whose layer maps to epoch E has Epoch = E,
\* NextEpoch.Epoch = E + 1, the count and the totals of the ATXs of epoch E - 1
\* as TotalActiveSmeshers, TotalWeight and EffectiveUnitsCommited, those of
\* epoch E in NextEpoch, TotalAccounts = CountAccounts() + 28 (here 128) and
\* MarketCap = the circulating supply times the price, truncated (here
\* 2,000,000 x 0.05 = 100,000).
C13_SnapshotEpochAttribution ==
    SyncMapHas(networkInfo, INFO_KEY) =>
        LET snapshot == GetInfo(networkInfo)
            E == GetEpoch(snapshot.Layer)
        IN  /\ snapshot.Epoch = E
            /\ Len(snapshot.NextEpoch) = 1
            /\ snapshot.NextEpoch[1].Epoch = E + 1
            /\ snapshot.TotalActiveSmeshers = CountAtxEpoch(E - 1)
            /\ snapshot.TotalWeight = GetAtxEpoch(E - 1).TotalWeight
            /\ snapshot.EffectiveUnitsCommited = GetAtxEpoch(E - 1).TotalEffectiveNumUnits
            /\ snapshot.NextEpoch[1].TotalActiveSmeshers = CountAtxEpoch(E)
            /\ snapshot.NextEpoch[1].EffectiveUnitsCommited =
                  GetAtxEpoch(E).TotalEffectiveNumUnits
            /\ snapshot.TotalAccounts = DbAccounts + 28
            /\ snapshot.TotalAccounts = 128
            /\ snapshot.MarketCap = (DbCirculatingSupply * 5) \div 100
            /\ snapshot.MarketCap = 100000

\* A snapshot of epoch 1 is published: two ATXs in epoch 0, one in epoch 1.
C13_Witness ==
    /\ SyncMapHas(networkInfo, INFO_KEY)
    /\ GetInfo(networkInfo).Epoch = 1
    /\ GetInfo(networkInfo).TotalActiveSmeshers = 2
    /\ GetInfo(networkInfo).TotalWeight = 100
    /\ GetInfo(networkInfo).NextEpoch[1].TotalActiveSmeshers = 1

-----------------------------------------------------------------------------
(* Isolation of failures between the loops (specification SinkSpec) *)

\* A started loop has no exit of its own: it runs for as long as the process.
LoopRuns(s) == wpc[s] # "notStarted" => proc = "running"

\* C14: after a message failed to decode or to persist, on any subject, every
\* one of the five loops still runs and can fetch and process further messages.
C14_PerSubjectFailureIsolation ==
    ((\E m \in unmarshalled : DecodeFails(m)) \/ naked # {}) =>
        \A s \in Subjects : LoopRuns(s)

\* The part of C14 the code keeps: while every payload decodes to a fact, a
\* failed Save* is answered with Nak and no loop stops.
C14_PersistFailureIsolated ==
    (\A m \in unmarshalled : msgs[m].kind = "fact") => \A s \in Subjects : LoopRuns(s)

-----------------------------------------------------------------------------
(* Tie-break and maximality of getHigestAtx (specification AtxSpec) *)

\* The positions of the ATXs of nodes that are not malfeasant.
Eligible == {i \in DOMAIN qAtxs : ~Flagged(i)}

\* The positions of the eligible ATXs no eligible ATX is higher than, by the
\* height the loop computes.
Highest == {i \in Eligible : \A j \in Eligible : AtxHeight(qAtxs[i]) >= AtxHeight(qAtxs[j])}

First(S) == CHOOSE i \in S : \A j \in S : i <= j

\* C15: when several eligible ATXs share the maximum height, getHigestAtx
\* returns the identifier of the first of them in the order of the list.
C15_TieBreakFirst ==
    (gotAtxID # NoValue /\ Cardinality(Highest) >= 2) =>
        gotAtxID[1] = qAtxs[First(Highest)].AtxID

\* The tie-break for heights above 0: the first of the highest is returned.
C15_TieBreakFirstAboveZero ==
    (gotAtxID # NoValue /\ Cardinality(Highest) >= 2
     /\ AtxHeight(qAtxs[First(Highest)]) > 0) =>
        gotAtxID[1] = qAtxs[First(Highest)].AtxID

\* The height baseTick + tickCount as a number, whatever the width.
TrueHeight(atx) == atx.BaseTick + atx.TickCount

\* C18: when some ATX is eligible, getHigestAtx returns the identifier of an
\* eligible ATX whose height baseTick + tickCount is at least that of every
\* other eligible ATX; it returns the empty identifier only when none is
\* eligible.
C18_HighestAtxMaximality ==
    gotAtxID # NoValue =>
        /\ Eligible # {} =>
              \E i \in Eligible :
                  /\ gotAtxID[1] = qAtxs[i].AtxID
                  /\ \A j \in Eligible : TrueHeight(qAtxs[i]) >= TrueHeight(qAtxs[j])
        /\ gotAtxID[1] = <<>> => Eligible = {}

\* Maximality where the defects do not reach: every eligible height is above 0
\* and within the width.
C18_MaximalityInRange ==
    (gotAtxID # NoValue /\ Eligible # {}
     /\ \A j \in Eligible : TrueHeight(qAtxs[j]) > 0 /\ TrueHeight(qAtxs[j]) < WordMod) =>
        \E i \in Eligible :
            /\ gotAtxID[1] = qAtxs[i].AtxID
            /\ \A j \in Eligible : TrueHeight(qAtxs[i]) >= TrueHeight(qAtxs[j])

-----------------------------------------------------------------------------
(* The long poll (specification PollSpec) *)

\* C16: a Fetch that times out with no message persists nothing, sends no Ack
\* and no Nak, leaves the process and every loop where they are, the loop at
\* its Fetch call again; and a Fetch hands the loop at most 10 messages.
C16_EmptyPollIsNoOp ==
    [][/\ polls' # polls =>
            /\ store' = store /\ saveFailures' = saveFailures
            /\ acked' = acked /\ naked' = naked
            /\ pending' = pending /\ batch' = batch
            /\ proc' = "running"
            /\ wpc' = wpc
            /\ \E s \in Subjects : wpc'[s] = "Fetch" /\ subs'[s] = "bound"
       /\ \A s \in Subjects :
            (wpc[s] = "Fetch" /\ wpc'[s] = "Unmarshal") =>
                (Len(batch'[s]) >= 1 /\ Len(batch'[s]) <= 10)]_vars

\* A loop timed out once, and later fetched a full batch of 10 out of a
\* backlog of more.
C16_Witness ==
    \E s \in Subjects :
        /\ polls >= 1
        /\ wpc[s] = "Unmarshal"
        /\ Len(batch[s]) = 10
        /\ pending[DurableOf(s)] # <<>>

-----------------------------------------------------------------------------
(* Construction and the two tickers (specification TickersSpec) *)

SubsInCycle(t) == pc[t] \in {"SubsGetLastProcessedLayer", "SubsLoop"}

\* NewNetworkState has not yet come back from its own fetchNetworkInfo call.
MainBeforeFetchDone == pc["main"] = "fetchNetworkInfo" \/ InCycle("main")

\* C17: NewNetworkState runs one whole snapshot cycle and one whole subsidy
\* cycle itself, each before the ticker of its kind is started and both before
\* it returns; when its snapshot cycle published, GetInfo is not the zero
\* snapshot from the return on, and when its subsidy cycle observed epoch E,
\* GetEpochSubsidy is not 0 for 2..E+1; after the return either cache changes
\* only in a cycle of its ticker.
C17_SynchronousInitialCompute ==
    /\ [](/\ pc["infoTicker"] # "notStarted" =>
                (startup.info # "none" /\ ~MainBeforeFetchDone)
          /\ pc["subsTicker"] # "notStarted" => pc["main"] = "returned"
          /\ pc["main"] = "returned" => (startup.info # "none" /\ startup.subs # "none")
          /\ (pc["main"] = "returned" /\ startup.info = "published") =>
                (SyncMapHas(networkInfo, INFO_KEY) /\ GetInfo(networkInfo) # ZeroInfo)
          /\ (pc["main"] = "returned" /\ startup.subs = "stored") =>
                \A e \in 2..(startup.epoch + 1) :
                    GetEpochSubsidy(epochSubsidies, e) # 0)
    /\ [][pc["main"] = "returned" =>
            /\ networkInfo' # networkInfo => pc["infoTicker"] = "Store"
            /\ epochSubsidies' # epochSubsidies => pc["subsTicker"] = "SubsLoop"]_vars

\* Both startup cycles succeeded, and a cycle of the snapshot ticker has since
\* replaced the snapshot with one of a later epoch.
C17_Witness ==
    /\ pc["main"] = "returned"
    /\ startup.info = "published"
    /\ startup.subs = "stored"
    /\ startup.epoch >= 1
    /\ pc["infoTicker"] = "idle"
    /\ GetInfo(networkInfo).Epoch > startup.epoch

\* C19: no two fetchNetworkInfo cycles and no two calculateEpochSubsidies cycles
\* run at once, and a cycle about to store finds the snapshot cache as it was
\* when the cycle began, so a cycle that began earlier never overwrites what a
\* later one stored; cycles of the two kinds may run at once.
C19_SingleWriterPerCache ==
    /\ ~(InCycle("main") /\ InCycle("infoTicker"))
    /\ ~(SubsInCycle("main") /\ SubsInCycle("subsTicker"))
    /\ InCycle("main") => pc["infoTicker"] = "notStarted"
    /\ SubsInCycle("main") => pc["subsTicker"] = "notStarted"
    /\ \A t \in InfoThreads : pc[t] = "Store" => networkInfo = cycleStart

\* A snapshot cycle and a subsidy cycle of the tickers are under way at once.
C19_Witness ==
    /\ pc["infoTicker"] = "Store"
    /\ pc["subsTicker"] = "SubsLoop"
    /\ SyncMapHas(networkInfo, INFO_KEY)

-----------------------------------------------------------------------------
(* Epoch arithmetic of fetchNetworkInfo (specification Spec) *)

\* The cycle of thread t has computed its epoch (line 82).
EpochKnown(t) == InCycle(t) /\ pc[t] # "GetLastProcessedLayer"

\* C20: in every cycle the epoch passed to CountAtxEpoch, GetAtxEpoch and
\* getHigestAtx for the previous epoch is the current epoch minus one and not
\* negative, and NextEpoch.Epoch is the current epoch plus one.
C20_PreviousEpochDoesNotWrap ==
    \A t \in InfoThreads :
        EpochKnown(t) =>
            /\ PrevEpoch(loc[t].epoch) = loc[t].epoch - 1
            /\ PrevEpoch(loc[t].epoch) >= 0
            /\ Assemble(loc[t], GetPrice).NextEpoch[1].Epoch = loc[t].epoch + 1

\* The part of C20 the code keeps: NextEpoch.Epoch never wraps to 0, and the
\* previous epoch is right from epoch 1 on.
C20_NoWrapFromEpochOne ==
    \A t \in InfoThreads :
        EpochKnown(t) =>
            /\ Assemble(loc[t], GetPrice).NextEpoch[1].Epoch = loc[t].epoch + 1
            /\ loc[t].epoch >= 1 => PrevEpoch(loc[t].epoch) = loc[t].epoch - 1

=============================================================================
